---- MODULE Spec2Model ----
(***************************************************************************)
(* A model of the change8 dependency-check action: the manifest differ     *)
(* (parsers), the breaking-change resolver (api), the comment formatter    *)
(* and the orchestrator (run).                                             *)
(*                                                                         *)
(* Text is modelled as a sequence of tokens: each token stands for a run   *)
(* of characters that the code's regular expressions and string methods    *)
(* treat as a unit (a package name, an operator, a numeric-dotted version, *)
(* the hidden marker, ...).                                                *)
(***************************************************************************)
EXTENDS Integers, Sequences, FiniteSets, TLC

VARIABLES
    \* ---- manifest differ (parseDependencyChanges)
    pFilename, pOld, pNew, pChanges, pPhase,
    \* ---- changed-file filter of run
    fFilename, fOut, fPhase,
    \* ---- comment formatter (generateComment)
    gResults, gComment, gPhase,
    \* ---- resolver (getBreakingChanges)
    changes, idx, pc, results, primary, releaseCalls, releaseFails,
    \* ---- orchestrator (run) and the pull request's comments
    comments, nextId, run

parseVars  == <<pFilename, pOld, pNew, pChanges, pPhase>>
filterVars == <<fFilename, fOut, fPhase>>
fmtVars    == <<gResults, gComment, gPhase>>
resVars    == <<changes, idx, pc, results, primary, releaseCalls, releaseFails>>
runVars    == <<comments, nextId, run>>
vars       == <<parseVars, filterVars, fmtVars, resVars, runVars>>

\* What an action of one component leaves alone: the other components.
notParse  == <<filterVars, fmtVars, resVars, runVars>>
notFilter == <<parseVars, fmtVars, resVars, runVars>>
notFmt    == <<parseVars, filterVars, resVars, runVars>>
notRes    == <<parseVars, filterVars, fmtVars, runVars>>
notRun    == <<parseVars, filterVars, fmtVars, resVars>>

(***************************************************************************)
(* Bounds of the model.                                                    *)
(***************************************************************************)
MaxLines    == 2   \* lines / entries per manifest snapshot
MaxNameLen  == 3   \* tokens per changed-file name
MaxResults  == 2   \* results handed to generateComment
MaxBC       == 4   \* breaking changes per result handed to generateComment
MaxChanges  == 2   \* dependency changes handed to getBreakingChanges
MaxReleases == 2   \* releases in a release-listing response
MaxRuns     == 2   \* runs of the action on the pull request
MaxUser     == 1   \* comments other users add to the pull request

(***************************************************************************)
(* Generic helpers.                                                        *)
(***************************************************************************)
RECURSIVE SeqsUpTo(_, _)
SeqsUpTo(S, n) ==
    IF n = 0 THEN {<<>>}
    ELSE LET shorter == SeqsUpTo(S, n - 1)
         IN  shorter \cup {Append(s, x) : s \in {t \in shorter : Len(t) = n - 1}, x \in S}

RECURSIVE Concat(_)
Concat(ss) == IF ss = <<>> THEN <<>> ELSE Head(ss) \o Concat(Tail(ss))

EndsWith(s, suf) ==
    /\ Len(s) >= Len(suf)
    /\ SubSeq(s, Len(s) - Len(suf) + 1, Len(s)) = suf

(***************************************************************************)
(* JavaScript values: a string (a token sequence), undefined, or the       *)
(* function inherited from Object.prototype.                               *)
(***************************************************************************)
Str(s)    == [t |-> "string", s |-> s]
Undefined == [t |-> "undefined", s |-> <<>>]
ObjectFn  == [t |-> "function", s |-> <<>>]

Truthy(v) == v.t = "function" \/ (v.t = "string" /\ v.s # <<>>)

JsString(v) ==
    IF v.t = "string" THEN v.s
    ELSE IF v.t = "function" THEN <<"function Object() { [native code] }">>
    ELSE <<"undefined">>

\* An object literal {} is an insertion-ordered sequence of <<key, value>>
\* pairs with distinct keys; its prototype is Object.prototype.
ObjectPrototypeKeys == {"constructor", "toString", "valueOf", "hasOwnProperty"}

HasOwn(o, k) == \E i \in DOMAIN o : o[i][1] = k
OwnGet(o, k) == o[CHOOSE i \in DOMAIN o : o[i][1] = k][2]

\* o[k]
JsGet(o, k) ==
    IF HasOwn(o, k) THEN OwnGet(o, k)
    ELSE IF k \in ObjectPrototypeKeys THEN ObjectFn
    ELSE Undefined

\* o[k] = v
JsSet(o, k, v) ==
    IF HasOwn(o, k)
    THEN [i \in DOMAIN o |-> IF o[i][1] = k THEN <<k, v>> ELSE o[i]]
    ELSE Append(o, <<k, v>>)

\* { ...a, ...b }
RECURSIVE Spread(_, _)
Spread(a, b) == IF b = <<>> THEN a ELSE Spread(JsSet(a, b[1][1], b[1][2]), Tail(b))

\* String.prototype.toLowerCase on the names of the model
ToLowerCase(name) ==
    CASE name = "A" -> "a"
      [] name = "React" -> "react"
      [] name = "Next" -> "next"
      [] OTHER -> name

(***************************************************************************)
(* parsers: token classes of the regular expressions.                      *)
(***************************************************************************)
NameTokens  == {"a", "A", "b", "constructor"}   \* [a-zA-Z0-9_-]+
OpTokens    == {"==", ">=", "~="}               \* [=~<>!]+
VerTokens   == {"1.0", "2.0"}                   \* [0-9.]+
SpaceTokens == {" "}                            \* \s

\* The position after the run of whitespace that starts at i.
RECURSIVE SkipSpaces(_, _)
SkipSpaces(s, i) ==
    IF i <= Len(s) /\ s[i] \in SpaceTokens THEN SkipSpaces(s, i + 1) ELSE i

\* name \s* op \s* version, with the name at position i: the <<name, version>>
\* captured, or <<>> when the pattern does not match there.
MatchDep(s, i) ==
    IF i > Len(s) \/ s[i] \notin NameTokens THEN <<>>
    ELSE LET j == SkipSpaces(s, i + 1)
         IN  IF j > Len(s) \/ s[j] \notin OpTokens THEN <<>>
             ELSE LET k == SkipSpaces(s, j + 1)
                  IN  IF k > Len(s) \/ s[k] \notin VerTokens THEN <<>>
                      ELSE <<s[i], s[k]>>

\* String.prototype.trim
RECURSIVE TrimLeft(_)
TrimLeft(s) == IF s # <<>> /\ Head(s) \in SpaceTokens THEN TrimLeft(Tail(s)) ELSE s
RECURSIVE TrimRight(_)
TrimRight(s) ==
    IF s # <<>> /\ s[Len(s)] \in SpaceTokens THEN TrimRight(SubSeq(s, 1, Len(s) - 1)) ELSE s
Trim(s) == TrimRight(TrimLeft(s))

RECURSIVE parseReqLinesFrom(_, _)
parseReqLinesFrom(lines, deps) ==
    IF lines = <<>> THEN deps
    ELSE LET trimmed == Trim(Head(lines))
             skip    == trimmed = <<>> \/ Head(trimmed) \in {"#", "-r"}
             match   == IF skip THEN <<>> ELSE MatchDep(trimmed, 1)
         IN  parseReqLinesFrom(Tail(lines),
                 IF match = <<>> THEN deps
                 ELSE JsSet(deps, ToLowerCase(match[1]), Str(<<match[2]>>)))

parseReqLines(content) == parseReqLinesFrom(content, <<>>)

\* The loop shared by parseRequirementsTxt and parsePyprojectToml:
\* for (const [pkg, newVersion] of Object.entries(newDeps)) ...
RECURSIVE DiffDeps(_, _, _)
DiffDeps(oldDeps, newDeps, i) ==
    IF i > Len(newDeps) THEN <<>>
    ELSE LET pkg        == newDeps[i][1]
             newVersion == newDeps[i][2]
             oldVersion == JsGet(oldDeps, pkg)
         IN  (IF Truthy(oldVersion) /\ oldVersion # newVersion
              THEN <<[package |-> pkg, fromVersion |-> oldVersion,
                      toVersion |-> newVersion, ecosystem |-> "pypi"]>>
              ELSE <<>>)
             \o DiffDeps(oldDeps, newDeps, i + 1)

parseRequirementsTxt(oldContent, newContent) ==
    DiffDeps(parseReqLines(oldContent), parseReqLines(newContent), 1)

\* The global regular expression of parsePyprojectDeps: a quote, then the
\* dependency pattern.  A match holds no quote after its first character,
\* so the matches are those at every quote position, in order.
RECURSIVE parsePyprojectDepsFrom(_, _, _)
parsePyprojectDepsFrom(text, i, deps) ==
    IF i > Len(text) THEN deps
    ELSE LET match == IF text[i] \in {"\"", "'"} THEN MatchDep(text, i + 1) ELSE <<>>
         IN  parsePyprojectDepsFrom(text, i + 1,
                 IF match = <<>> THEN deps
                 ELSE JsSet(deps, ToLowerCase(match[1]), Str(<<match[2]>>)))

parsePyprojectDeps(content) == parsePyprojectDepsFrom(Concat(content), 1, <<>>)

parsePyprojectToml(oldContent, newContent) ==
    DiffDeps(parsePyprojectDeps(oldContent), parsePyprojectDeps(newContent), 1)

\* .replace(/^[\^~]/, '')
StripRange(s) == IF s # <<>> /\ Head(s) \in {"^", "~"} THEN Tail(s) ELSE s

\* JSON.parse of a package.json document, given as its <<section, key,
\* version>> members in text order (a repeated key keeps its last value):
\* the object held under `section`, <<>> when the section is absent.
RECURSIVE JsonSection(_, _)
JsonSection(entries, section) ==
    IF entries = <<>> THEN <<>>
    ELSE LET rest == JsonSection(SubSeq(entries, 1, Len(entries) - 1), section)
             e    == entries[Len(entries)]
         IN  IF e[1] = section THEN JsSet(rest, e[2], Str(e[3])) ELSE rest

\* { ...pkg.dependencies, ...pkg.devDependencies }
MergedDeps(content) ==
    IF content.kind = "doc"
    THEN Spread(JsonSection(content.entries, "dependencies"),
                JsonSection(content.entries, "devDependencies"))
    ELSE <<>>

RECURSIVE DiffPackageJson(_, _, _)
DiffPackageJson(oldDeps, newDeps, i) ==
    IF i > Len(newDeps) THEN <<>>
    ELSE LET pkg           == newDeps[i][1]
             newVersionRaw == newDeps[i][2]
             oldVersionRaw == JsGet(oldDeps, pkg)
             oldVersion    == StripRange(JsString(oldVersionRaw))
             newVersion    == StripRange(JsString(newVersionRaw))
         IN  (IF /\ Truthy(oldVersionRaw)
                 /\ oldVersionRaw # newVersionRaw
                 /\ oldVersion # newVersion
              THEN <<[package |-> pkg, fromVersion |-> Str(oldVersion),
                      toVersion |-> Str(newVersion), ecosystem |-> "npm"]>>
              ELSE <<>>)
             \o DiffPackageJson(oldDeps, newDeps, i + 1)

parsePackageJson(oldContent, newContent) ==
    IF oldContent.kind = "invalid" \/ newContent.kind = "invalid"
    THEN <<>>                                   \* JSON.parse throws: caught
    ELSE DiffPackageJson(MergedDeps(oldContent), MergedDeps(newContent), 1)

\* The sub-parser parseDependencyChanges dispatches to.
Dispatch(filename) ==
    IF EndsWith(filename, <<"requirements.txt">>) THEN "requirements.txt"
    ELSE IF EndsWith(filename, <<"package.json">>) THEN "package.json"
    ELSE IF EndsWith(filename, <<"pyproject.toml">>) THEN "pyproject.toml"
    ELSE "none"

parseDependencyChanges(filename, oldContent, newContent) ==
    CASE Dispatch(filename) = "requirements.txt" -> parseRequirementsTxt(oldContent, newContent)
      [] Dispatch(filename) = "package.json"     -> parsePackageJson(oldContent, newContent)
      [] Dispatch(filename) = "pyproject.toml"   -> parsePyprojectToml(oldContent, newContent)
      [] OTHER -> <<>>

(***************************************************************************)
(* Inputs of the differ.                                                   *)
(***************************************************************************)
ReqLineSet ==
    { <<"a", "==", "1.0">>, <<"A", " ", ">=", " ", "2.0">>, <<" ", "b", "~=", "1.0", " ">>,
      <<"#", "a", "==", "2.0">>, <<"-r", "b", "==", "2.0">>, <<"a">>,
      <<"constructor", "==", "1.0">> }

TomlLineSet ==
    { <<"\"", "a", ">=", "1.0", "\"">>, <<"'", "A", " ", "==", " ", "2.0", "'">>,
      <<"\"", "b", "~=", "1.0", "\"">>, <<"a", "=", "\"", "^", "1.0", "\"">>,
      <<"\"", "constructor", ">=", "1.0", "\"">> }

JsonVersions == { <<>>, <<"1">>, <<"^", "1">>, <<"~", "2">> }

JsonEntrySet ==
    { <<s, k, v>> : s \in {"dependencies", "devDependencies"},
                    k \in {"a", "constructor"}, v \in JsonVersions }

JsonContents ==
    { [kind |-> "empty", entries |-> <<>>], [kind |-> "invalid", entries |-> <<>>] }
    \cup { [kind |-> "doc", entries |-> es] : es \in SeqsUpTo(JsonEntrySet, MaxLines) }

ParseFilenames ==
    { <<"requirements.txt">>, <<"d", "/", "package.json">>, <<"pyproject.toml">>, <<"x.md">> }

ContentsFor(filename) ==
    CASE Dispatch(filename) = "requirements.txt" -> SeqsUpTo(ReqLineSet, MaxLines)
      [] Dispatch(filename) = "package.json"     -> JsonContents
      [] Dispatch(filename) = "pyproject.toml"   -> SeqsUpTo(TomlLineSet, MaxLines)
      [] OTHER -> SeqsUpTo(ReqLineSet, 1)

(***************************************************************************)
(* Idle components: a specification about one component leaves the others  *)
(* in these states.                                                        *)
(***************************************************************************)
ParseIdle ==
    /\ pFilename = <<>> /\ pOld = <<>> /\ pNew = <<>> /\ pChanges = <<>> /\ pPhase = "idle"

(***************************************************************************)
(* The differ applied to a file name and two snapshots.                    *)
(***************************************************************************)
ParseInit ==
    /\ pFilename \in ParseFilenames
    /\ pOld \in ContentsFor(pFilename)
    /\ pNew \in ContentsFor(pFilename)
    /\ pChanges = <<>>
    /\ pPhase = "input"

Parse ==
    /\ pPhase = "input"
    /\ pChanges' = parseDependencyChanges(pFilename, pOld, pNew)
    /\ pPhase' = "parsed"
    /\ UNCHANGED <<pFilename, pOld, pNew, notParse>>

(***************************************************************************)
(* run: the filter of the pull request's changed files.  A file name is a  *)
(* token sequence: "d" is a run of characters without "/", and the three   *)
(* manifest names are tokens of their own, so that <<"d", "package.json">> *)
(* is a name such as "old-package.json".                                   *)
(***************************************************************************)
FilenameTokens == {"d", "/", "requirements.txt", "package.json", "pyproject.toml", "x.md"}
Filenames      == SeqsUpTo(FilenameTokens, MaxNameLen) \ {<<>>}

\* (mutant) the filter with a fourth suffix, "/pyproject.toml"
IsDepFileAnyDirectory(filename) ==
    \E m \in {"requirements.txt", "package.json", "pyproject.toml"} :
        filename = <<m>> \/ EndsWith(filename, <<"/", m>>)

\* files.filter(f => ...)
IsDepFile(filename) ==
    \/ filename = <<"requirements.txt">>
    \/ filename = <<"package.json">>
    \/ filename = <<"pyproject.toml">>
    \/ EndsWith(filename, <<"/", "requirements.txt">>)
    \/ EndsWith(filename, <<"/", "package.json">>)

FilterIdle == fFilename = <<>> /\ fOut = "none" /\ fPhase = "idle"

FilterInit == fFilename \in Filenames /\ fOut = "none" /\ fPhase = "input"

\* One changed file through the filter and, when kept, parseDependencyChanges:
\* fOut is the sub-parser that read it, "ignored" when the filter dropped it.
FilterFile ==
    /\ fPhase = "input"
    /\ fOut' = IF IsDepFile(fFilename) THEN Dispatch(fFilename) ELSE "ignored"
    /\ fPhase' = "filtered"
    /\ UNCHANGED <<fFilename, notFilter>>

(***************************************************************************)
(* generateComment.  A text is a sequence of chunks; ChunkLen is the       *)
(* number of characters a chunk stands for, which substring() needs.       *)
(***************************************************************************)
MARKER == "<!-- change8-action -->"

MarkerLen   == 23
ChangeLimit == 80
FixLimit    == 60
TableLimit  == 3

ChunkLen(c) ==
    CASE c = MARKER -> MarkerLen
      [] c = "x60"  -> 60
      [] c = "..."  -> 3
      [] OTHER      -> 5

RECURSIVE TextLen(_)
TextLen(s) == IF s = <<>> THEN 0 ELSE ChunkLen(Head(s)) + TextLen(Tail(s))

\* s.substring(0, n): a chunk cut in the middle leaves a fragment, which is
\* no longer that chunk.
RECURSIVE Substring(_, _)
Substring(s, n) ==
    IF s = <<>> \/ n <= 0 THEN <<>>
    ELSE IF ChunkLen(Head(s)) <= n
         THEN <<Head(s)>> \o Substring(Tail(s), n - ChunkLen(Head(s)))
         ELSE <<"(cut)">>

\* s.substring(0, n) + (s.length > n ? '...' : '')
Truncate(s, n) == Substring(s, n) \o (IF TextLen(s) > n THEN <<"...">> ELSE <<>>)

TableRow(bc) ==
    <<"| ">> \o Truncate(bc.change, ChangeLimit) \o <<" | ">>
    \o (IF Truthy(bc.fix) THEN Truncate(bc.fix.s, FixLimit) ELSE <<"-">>)
    \o <<" |\n">>

RECURSIVE TableRows(_)
TableRows(bcs) == IF bcs = <<>> THEN <<>> ELSE TableRow(Head(bcs)) \o TableRows(Tail(bcs))

Section(result) ==
    <<"### ", result.package, ": ">> \o result.fromVersion \o <<" -> ">>
    \o result.toVersion \o <<"\n\n">>
    \o <<"**", ToString(Len(result.breakingChanges)), " breaking change(s) detected**\n\n">>
    \o (IF Len(result.breakingChanges) <= TableLimit
        THEN <<"| Issue | Fix |\n|-------|-----|\n">> \o TableRows(result.breakingChanges) \o <<"\n">>
        ELSE <<>>)
    \o <<"**[Full Migration Guide](">> \o result.migrationUrl \o <<")**\n\n---\n\n">>

RECURSIVE Sections(_)
Sections(rs) == IF rs = <<>> THEN <<>> ELSE Section(Head(rs)) \o Sections(Tail(rs))

HasBreakingChanges(r) == Len(r.breakingChanges) > 0

Null       == [null |-> TRUE, text |-> <<>>]
Text(body) == [null |-> FALSE, text |-> body]

\* body.includes(MARKER) and the number of times the marker occurs
Includes(body, c) == \E i \in DOMAIN body : body[i] = c
Occurrences(body, c) == Cardinality({i \in DOMAIN body : body[i] = c})

\* (mutant) null only for an empty list: every result is rendered
generateCommentUnfiltered(rs) ==
    IF Len(rs) = 0 THEN Null
    ELSE Text(<<MARKER, "\n## Change8 Dependency Analysis\n\n">>
              \o Sections(rs)
              \o <<"\n<sub>Powered by [Change8](https://change8.dev)</sub>">>)

generateComment(rs) ==
    LET withBreaking == SelectSeq(rs, HasBreakingChanges)
    IN  IF Len(withBreaking) = 0 THEN Null
        ELSE Text(<<MARKER, "\n## Change8 Dependency Analysis\n\n">>
                  \o Sections(withBreaking)
                  \o <<"\n<sub>Powered by [Change8](https://change8.dev)</sub>">>)

\* Inputs of generateComment.
GenBCSet ==
    { [change |-> <<"issue">>, fix |-> Undefined],
      [change |-> <<MARKER, "x60">>, fix |-> Str(<<"x60", MARKER>>)] }

GenResult(p, bcs) ==
    [package |-> p, fromVersion |-> <<"1.0">>, toVersion |-> <<"2.0">>,
     breakingChanges |-> bcs,
     migrationUrl |-> <<"https://www.change8.dev/guides/", p, "/migrating-to-", "2.0">>]

\* Every list of breaking changes for a package "pkg", and a package whose
\* name is the marker text.
GenResultSet ==
    { GenResult("pkg", bcs) : bcs \in SeqsUpTo(GenBCSet, MaxBC) }
    \cup { GenResult(MARKER, <<[change |-> <<"issue">>, fix |-> Undefined]>>) }

FmtIdle == gResults = <<>> /\ gComment = Null /\ gPhase = "idle"

FmtInit == gResults \in SeqsUpTo(GenResultSet, MaxResults) /\ gComment = Null /\ gPhase = "input"

Generate ==
    /\ gPhase = "input"
    /\ gComment' = generateComment(gResults)
    /\ gPhase' = "generated"
    /\ UNCHANGED <<gResults, notFmt>>

(***************************************************************************)
(* api: the resolver.                                                      *)
(***************************************************************************)
\* const mappings: Record<string, string> = { ... }
Mappings ==
    << <<"langchain", Str(<<"langchain">>)>>,
       <<"langchain-core", Str(<<"langchain">>)>>,
       <<"langchain-openai", Str(<<"langchain">>)>>,
       <<"langchain-community", Str(<<"langchain">>)>>,
       <<"next", Str(<<"next-js">>)>>,
       <<"react", Str(<<"react">>)>>,
       <<"pydantic", Str(<<"pydantic">>)>>,
       <<"fastapi", Str(<<"fastapi">>)>>,
       <<"pytorch", Str(<<"pytorch">>)>>,
       <<"torch", Str(<<"pytorch">>)>>,
       <<"transformers", Str(<<"transformers">>)>>,
       <<"openai", Str(<<"openai-python-sdk">>)>>,
       <<"typescript", Str(<<"typescript">>)>>,
       <<"vite", Str(<<"vite">>)>>,
       <<"prisma", Str(<<"prisma">>)>>,
       <<"tailwindcss", Str(<<"tailwind-css">>)>> >>

\* mappings[packageName.toLowerCase()] || packageName.toLowerCase()
mapPackageToSourceId(packageName) ==
    LET lower == ToLowerCase(packageName)
        m     == JsGet(Mappings, lower)
    IN  IF Truthy(m) THEN m ELSE Str(<<lower>>)

\* version.replace(/^v/, '')
StripV(version) == IF version # <<>> /\ Head(version) = "v" THEN Tail(version) ELSE version

buildMigrationUrl(sourceId, version) ==
    <<"https://www.change8.dev/guides/">> \o sourceId \o <<"/migrating-to-">> \o StripV(version)

BreakingResult(change, breakingChanges, migrationUrl) ==
    [package |-> change.package, fromVersion |-> change.fromVersion,
     toVersion |-> change.toVersion, breakingChanges |-> breakingChanges,
     migrationUrl |-> migrationUrl]

\* getBreakingChangesForPackage, the primary lookup answered 2xx with `data`
DiffResult(change, data) ==
    BreakingResult(change,
                   IF data.has_breaking_changes THEN data.breaking_changes ELSE <<>>,
                   buildMigrationUrl(JsString(mapPackageToSourceId(change.package)),
                                     change.toVersion))

\* r.tag.includes('==') ? r.tag.split('==')[1] : r.tag.replace(/^v/, '')
RECURSIVE UpToSeparator(_)
UpToSeparator(s) ==
    IF s = <<>> \/ Head(s) = "==" THEN <<>> ELSE <<Head(s)>> \o UpToSeparator(Tail(s))

RECURSIVE AfterSeparator(_)
AfterSeparator(s) ==
    IF s = <<>> THEN <<>>
    ELSE IF Head(s) = "==" THEN UpToSeparator(Tail(s)) ELSE AfterSeparator(Tail(s))

TagVersion(tag) == IF Includes(tag, "==") THEN AfterSeparator(tag) ELSE StripV(tag)

TagMatches(tag, toVersion) ==
    TagVersion(tag) = toVersion \/ TagVersion(tag) = <<"v">> \o toVersion

\* The loop over targetRelease.breaking_changes
NormalizeBC(bc) ==
    IF bc.t = "string" THEN <<[change |-> bc.change.s, fix |-> Undefined]>>
    ELSE IF bc.t = "object"
         THEN <<[change |-> IF Truthy(bc.change) THEN bc.change.s
                            ELSE IF Truthy(bc.description) THEN bc.description.s
                            ELSE <<"JSON.stringify(bc)">>,
                 fix |-> bc.fix]>>
         ELSE <<>>

RECURSIVE NormalizeBCs(_)
NormalizeBCs(bcs) ==
    IF bcs = <<>> THEN <<>> ELSE NormalizeBC(Head(bcs)) \o NormalizeBCs(Tail(bcs))

\* getBreakingChangesFromRelease, the listing answered 2xx with `releases`
ReleaseResult(change, releases) ==
    LET hits == SelectSeq(releases, LAMBDA r : TagMatches(r.tag, change.toVersion))
        breakingChanges ==
            IF hits # <<>> /\ Head(hits).has_breaking_changes
            THEN NormalizeBCs(Head(hits).breaking_changes)
            ELSE <<>>
    IN  BreakingResult(change, breakingChanges,
                       buildMigrationUrl(JsString(mapPackageToSourceId(change.package)),
                                         change.toVersion))

\* (mutant) the catch block only logs the failure
CatchResultDropped(change) == <<>>

\* The catch block of getBreakingChanges: what it pushes onto results
CatchResult(change) ==
    <<BreakingResult(change, <<>>, buildMigrationUrl(<<change.package>>, change.toVersion))>>

\* Inputs and responses.
Change(p, v) == [package |-> p, fromVersion |-> <<"0">>, toVersion |-> v, ecosystem |-> "npm"]

\* A mapped name, a name in capitals, and an unmapped name with and without
\* a "v" before the target version.
ChangeSet ==
    { Change("next", <<"1">>), Change("React", <<"v", "1">>),
      Change("left-pad", <<"1">>), Change("left-pad", <<"v", "1">>) }

DiffData ==
    { [has_breaking_changes |-> FALSE, breaking_changes |-> <<>>],
      [has_breaking_changes |-> TRUE, breaking_changes |-> <<>>],
      [has_breaking_changes |-> TRUE,
       breaking_changes |-> <<[change |-> <<"issue">>, fix |-> Str(<<"fix">>)]>>] }

RawStringBC == [t |-> "string", change |-> Str(<<"issue">>), description |-> Undefined,
                fix |-> Undefined]
RawObjectBC == [t |-> "object", change |-> Undefined, description |-> Str(<<"descr">>),
                fix |-> Str(<<"fix">>)]
RawOtherBC  == [t |-> "other", change |-> Undefined, description |-> Undefined,
                fix |-> Undefined]

ReleaseSet ==
    { [tag |-> <<"v", "1">>, has_breaking_changes |-> TRUE,
       breaking_changes |-> <<RawStringBC>>],
      [tag |-> <<"p", "==", "1">>, has_breaking_changes |-> TRUE,
       breaking_changes |-> <<RawObjectBC, RawOtherBC>>],
      [tag |-> <<"1">>, has_breaking_changes |-> FALSE, breaking_changes |-> <<>>],
      [tag |-> <<"2">>, has_breaking_changes |-> TRUE,
       breaking_changes |-> <<RawStringBC>>] }

ReleaseLists == SeqsUpTo(ReleaseSet, MaxReleases)

ResIdle ==
    /\ changes = <<>> /\ idx = 0 /\ pc = "idle" /\ results = <<>>
    /\ primary = <<>> /\ releaseCalls = <<>> /\ releaseFails = <<>>

\* primary[i], releaseCalls[i] and releaseFails[i] record, for change i,
\* how the primary lookup ended, how many times the release listing was
\* requested and how many of these requests failed.
ResInit ==
    /\ changes \in SeqsUpTo(ChangeSet, MaxChanges)
    /\ idx = 1
    /\ pc = "diff"
    /\ results = <<>>
    /\ primary = [i \in DOMAIN changes |-> "none"]
    /\ releaseCalls = [i \in DOMAIN changes |-> 0]
    /\ releaseFails = [i \in DOMAIN changes |-> 0]

\* results.push(result) and the next iteration of the loop
Push(rs) ==
    /\ results' = results \o rs
    /\ idx' = idx + 1
    /\ pc' = "diff"

\* fetch(/diff) answered 2xx with a JSON body
DiffOk ==
    /\ pc = "diff" /\ idx <= Len(changes)
    /\ \E data \in DiffData : Push(<<DiffResult(changes[idx], data)>>)
    /\ primary' = [primary EXCEPT ![idx] = "ok"]
    /\ UNCHANGED <<changes, releaseCalls, releaseFails, notRes>>

\* fetch(/diff) answered with a non-success status: the fallback is awaited
\* inside the try block
DiffStatus ==
    /\ pc = "diff" /\ idx <= Len(changes)
    /\ pc' = "fallbackInTry"
    /\ primary' = [primary EXCEPT ![idx] = "status"]
    /\ UNCHANGED <<changes, idx, results, releaseCalls, releaseFails, notRes>>

\* fetch(/diff) rejected, or response.json() threw: the catch block
DiffThrow ==
    /\ pc = "diff" /\ idx <= Len(changes)
    /\ pc' = "fallbackInCatch"
    /\ primary' = [primary EXCEPT ![idx] = "throw"]
    /\ UNCHANGED <<changes, idx, results, releaseCalls, releaseFails, notRes>>

\* fetch(/releases) answered 2xx with a list of releases
ReleasesOk ==
    /\ pc \in {"fallbackInTry", "fallbackInCatch"}
    /\ releaseCalls' = [releaseCalls EXCEPT ![idx] = @ + 1]
    /\ \E releases \in ReleaseLists : Push(<<ReleaseResult(changes[idx], releases)>>)
    /\ UNCHANGED <<changes, primary, releaseFails, notRes>>

\* fetch(/releases) rejected, answered with a non-success status, or its body
\* could not be read: getBreakingChangesFromRelease throws
ReleasesFail ==
    /\ pc \in {"fallbackInTry", "fallbackInCatch"}
    /\ releaseCalls' = [releaseCalls EXCEPT ![idx] = @ + 1]
    /\ releaseFails' = [releaseFails EXCEPT ![idx] = @ + 1]
    /\ IF pc = "fallbackInTry"
       THEN \* `return await` inside try: the rejection is caught at line 87
            pc' = "fallbackInCatch" /\ UNCHANGED <<idx, results>>
       ELSE \* thrown out of getBreakingChangesForPackage
            Push(CatchResult(changes[idx]))
    /\ UNCHANGED <<changes, primary, notRes>>

\* return results
Return ==
    /\ pc = "diff" /\ idx > Len(changes)
    /\ pc' = "done"
    /\ UNCHANGED <<changes, idx, results, primary, releaseCalls, releaseFails, notRes>>

(***************************************************************************)
(* run: the orchestrator, from the resolved results to the comment and the *)
(* failure signal.  comments are the pull request's comments, oldest       *)
(* first; run[r] is the state of run r of the action.                      *)
(***************************************************************************)
Runs == 1 .. MaxRuns

BreakingMsg == "Breaking changes detected in dependencies"
ApiErrorMsg == "HttpError"

\* core.getInput('fail-on-breaking') === 'true'
FailInputs == {"true", "false", ""}
failOnBreakingOf(input) == input = "true"

\* What getBreakingChanges hands to run; <<>> stands for the early returns
\* (no dependency file changed, no version change detected).
RunResultLists ==
    LET c1 == Change("next", <<"1">>)
        c2 == Change("left-pad", <<"v", "1">>)
        bc == [has_breaking_changes |-> TRUE,
               breaking_changes |-> <<[change |-> <<"issue">>, fix |-> Str(<<"fix">>)]>>]
    IN  { <<>>,
          CatchResult(c1),
          <<DiffResult(c1, bc)>>,
          CatchResult(c1) \o <<DiffResult(c2, bc)>> }

\* breakingResults.some(r => r.breakingChanges.length > 0)
hasBreakingOf(rs) == \E i \in DOMAIN rs : Len(rs[i].breakingChanges) > 0

\* (mutant) the flag is not consulted
ShouldFailUnconditionally(failOnBreaking, rs) == hasBreakingOf(rs)

\* failOnBreaking && hasBreaking
ShouldFail(failOnBreaking, rs) == failOnBreaking /\ hasBreakingOf(rs)

\* (mutant) the body is compared with the marker instead of searched for it
FindExistingByEquality(cs) ==
    LET marked == SelectSeq(cs, LAMBDA c : c.body = <<MARKER>>)
    IN  IF marked = <<>> THEN 0 ELSE Head(marked).id

\* comments.find(c => c.body?.includes(MARKER)): its id, 0 when there is none
FindExisting(cs) ==
    LET marked == SelectSeq(cs, LAMBDA c : Includes(c.body, MARKER))
    IN  IF marked = <<>> THEN 0 ELSE Head(marked).id

IdleRun ==
    [pc |-> "idle", failOnBreaking |-> FALSE, results |-> <<>>, comment |-> Null,
     existing |-> 0, posted |-> "none", failed |-> "none"]

RunIdle == comments = <<>> /\ nextId = 1 /\ run = [r \in Runs |-> IdleRun]

RunInit == RunIdle

NoOtherActive(r) == \A q \in Runs \ {r} : run[q].pc \in {"idle", "done"}

\* run() up to generateComment.  It returns early when the event is no pull
\* request, when nothing relevant changed and when there is no comment to
\* post; an error of listFiles reaches the catch block.
Analyze(r) ==
    /\ run[r].pc = "idle"
    /\ \E input \in FailInputs, isPR \in BOOLEAN, listFilesFails \in BOOLEAN,
          rs \in RunResultLists :
          LET comment == generateComment(rs)
              started == [run[r] EXCEPT !.failOnBreaking = failOnBreakingOf(input)]
          IN  run' = [run EXCEPT ![r] =
                  IF ~isPR THEN [started EXCEPT !.pc = "done"]
                  ELSE IF listFilesFails
                       THEN [started EXCEPT !.pc = "done", !.failed = ApiErrorMsg]
                  ELSE IF rs = <<>> THEN [started EXCEPT !.pc = "done"]
                  ELSE IF comment.null
                       THEN [started EXCEPT !.pc = "done", !.results = rs]
                  ELSE [started EXCEPT !.pc = "list", !.results = rs, !.comment = comment]]
    /\ UNCHANGED <<comments, nextId, notRun>>

\* Runs one after another: a run starts when no other run is under way.
AnalyzeAlone(r) == NoOtherActive(r) /\ Analyze(r)

\* await octokit.rest.issues.listComments(...)
ListComments(r) ==
    /\ run[r].pc = "list"
    /\ run' = [run EXCEPT ![r].pc = "upsert", ![r].existing = FindExisting(comments)]
    /\ UNCHANGED <<comments, nextId, notRun>>

\* The failure signal after the comment was written; the run's locals
\* (comment, existingComment) go out of scope.
Finished(st, how) ==
    [st EXCEPT !.pc = "done", !.posted = how, !.comment = Null, !.existing = 0,
               !.failed = IF ShouldFail(st.failOnBreaking, st.results)
                          THEN BreakingMsg ELSE "none"]

\* await octokit.rest.issues.updateComment(...)
UpdateComment(r) ==
    /\ run[r].pc = "upsert" /\ run[r].existing # 0
    /\ \E i \in DOMAIN comments : comments[i].id = run[r].existing
    /\ comments' = [i \in DOMAIN comments |->
                       IF comments[i].id = run[r].existing
                       THEN [comments[i] EXCEPT !.body = run[r].comment.text]
                       ELSE comments[i]]
    /\ run' = [run EXCEPT ![r] = Finished(run[r], "updated")]
    /\ UNCHANGED <<nextId, notRun>>

\* await octokit.rest.issues.createComment(...)
CreateComment(r) ==
    /\ run[r].pc = "upsert" /\ run[r].existing = 0
    /\ comments' = Append(comments, [id |-> nextId, body |-> run[r].comment.text])
    /\ nextId' = nextId + 1
    /\ run' = [run EXCEPT ![r] = Finished(run[r], "created")]
    /\ UNCHANGED notRun

\* A request to the hosting API is rejected (among them an update of a
\* comment deleted since it was listed): catch (error) { core.setFailed(error.message) }
ApiFails(r) ==
    /\ run[r].pc \in {"list", "upsert"}
    /\ run' = [run EXCEPT ![r].pc = "done", ![r].failed = ApiErrorMsg,
                          ![r].comment = Null, ![r].existing = 0]
    /\ UNCHANGED <<comments, nextId, notRun>>

\* Other users of the pull request: a comment without the marker, and the
\* deletion of a comment.
UserComments ==
    /\ Cardinality({i \in DOMAIN comments : ~Includes(comments[i].body, MARKER)}) < MaxUser
    /\ nextId <= MaxRuns + MaxUser
    /\ comments' = Append(comments, [id |-> nextId, body |-> <<"LGTM">>])
    /\ nextId' = nextId + 1
    /\ UNCHANGED <<run, notRun>>

UserDeletes ==
    /\ \E i \in DOMAIN comments :
          comments' = SubSeq(comments, 1, i - 1) \o SubSeq(comments, i + 1, Len(comments))
    /\ UNCHANGED <<nextId, run, notRun>>

MarkedComments == {i \in DOMAIN comments : Includes(comments[i].body, MARKER)}

(***************************************************************************)
(* Specifications, one per component.                                      *)
(***************************************************************************)
InitParse == ParseInit /\ FilterIdle /\ FmtIdle /\ ResIdle /\ RunIdle
NextParse == Parse
SpecParse == InitParse /\ [][NextParse]_vars

InitFilter == ParseIdle /\ FilterInit /\ FmtIdle /\ ResIdle /\ RunIdle
NextFilter == FilterFile
SpecFilter == InitFilter /\ [][NextFilter]_vars

InitFormat == ParseIdle /\ FilterIdle /\ FmtInit /\ ResIdle /\ RunIdle
NextFormat == Generate
SpecFormat == InitFormat /\ [][NextFormat]_vars

InitResolve == ParseIdle /\ FilterIdle /\ FmtIdle /\ ResInit /\ RunIdle
NextResolve ==
    \/ DiffOk
    \/ DiffStatus
    \/ DiffThrow
    \/ ReleasesOk
    \/ ReleasesFail
    \/ Return
SpecResolve == InitResolve /\ [][NextResolve]_vars

InitRun == ParseIdle /\ FilterIdle /\ FmtIdle /\ ResIdle /\ RunInit

\* Runs of the action on one pull request, one after another.
NextSeq ==
    \/ \E r \in Runs : AnalyzeAlone(r)
    \/ \E r \in Runs : ListComments(r)
    \/ \E r \in Runs : UpdateComment(r)
    \/ \E r \in Runs : CreateComment(r)
    \/ \E r \in Runs : ApiFails(r)
    \/ UserComments
    \/ UserDeletes
SpecSeq == InitRun /\ [][NextSeq]_vars

\* Runs that may overlap in time (two workflow runs of the same pull request).
NextConc ==
    \/ \E r \in Runs : Analyze(r)
    \/ \E r \in Runs : ListComments(r)
    \/ \E r \in Runs : UpdateComment(r)
    \/ \E r \in Runs : CreateComment(r)
    \/ \E r \in Runs : ApiFails(r)
    \/ UserComments
    \/ UserDeletes
SpecConc == InitRun /\ [][NextConc]_vars

(***************************************************************************)
(* Claims about the resolver (SpecResolve).                                *)
(***************************************************************************)
PrimaryFailed(i) == primary[i] \in {"status", "throw"}

\* C1: when the primary lookup of a package fails (by status or by a
\* transport error) the release listing is requested exactly once for it;
\* if that request fails too it is not requested again, and the result has
\* no breaking changes and a non-empty migration URL.
C1_FallbackExactlyOnce ==
    \A i \in DOMAIN changes :
        /\ releaseCalls[i] <= 1
        /\ i \in DOMAIN results /\ PrimaryFailed(i) =>
              /\ releaseCalls[i] = 1
              /\ releaseFails[i] >= 1 =>
                    /\ results[i].breakingChanges = <<>>
                    /\ results[i].migrationUrl # <<>>

\* The canonical catalog identifier of the claims: the lookup-table value,
\* or the lowercased name when the table has no entry for it.
CanonicalId(package) ==
    LET lower == ToLowerCase(package)
    IN  IF \E i \in DOMAIN Mappings : Mappings[i][1] = lower
        THEN OwnGet(Mappings, lower).s
        ELSE <<lower>>

\* C2: in every outcome the migration URL of a result is built from the
\* canonical identifier of its package and the target version without its
\* leading "v".
C2_MigrationUrlCanonical ==
    \A i \in DOMAIN results :
        results[i].migrationUrl =
            <<"https://www.change8.dev/guides/">> \o CanonicalId(changes[i].package)
            \o <<"/migrating-to-">>
            \o (IF Head(changes[i].toVersion) = "v"
                THEN Tail(changes[i].toVersion) ELSE changes[i].toVersion)

AllLookupsFailed(i) ==
    PrimaryFailed(i) /\ releaseCalls[i] >= 1 /\ releaseFails[i] = releaseCalls[i]

\* C3: getBreakingChanges yields exactly one result per input change, in
\* input order, with the change's package and versions; a change whose
\* lookups all fail yields an empty breakingChanges list, and the loop goes
\* on to the later changes whatever the catalog answers.
C3_OneResultPerChange ==
    /\ Len(results) = idx - 1
    /\ idx <= Len(changes) + 1
    /\ \A i \in DOMAIN results :
          /\ results[i].package = changes[i].package
          /\ results[i].fromVersion = changes[i].fromVersion
          /\ results[i].toVersion = changes[i].toVersion
          /\ AllLookupsFailed(i) => results[i].breakingChanges = <<>>
    /\ pc = "done" => Len(results) = Len(changes)
    /\ pc # "done" => ENABLED NextResolve

\* C3's case: a first change whose lookups all failed, then a change
\* resolved with breaking changes.
C3_Witness ==
    /\ pc = "done" /\ Len(changes) = 2
    /\ AllLookupsFailed(1) /\ results[1].breakingChanges = <<>>
    /\ primary[2] = "ok" /\ results[2].breakingChanges # <<>>

(***************************************************************************)
(* Claims about the differ (SpecParse).                                    *)
(***************************************************************************)
\* What the old snapshot declares, by format: the package names with their
\* version (for package.json without its range qualifier).
OldDeclares(package, version) ==
    CASE Dispatch(pFilename) = "requirements.txt" ->
            \E i \in DOMAIN parseReqLines(pOld) :
                parseReqLines(pOld)[i] = <<package, version>>
      [] Dispatch(pFilename) = "pyproject.toml" ->
            \E i \in DOMAIN parsePyprojectDeps(pOld) :
                parsePyprojectDeps(pOld)[i] = <<package, version>>
      [] Dispatch(pFilename) = "package.json" ->
            \E i \in DOMAIN MergedDeps(pOld) :
                /\ MergedDeps(pOld)[i][1] = package
                /\ Str(StripRange(MergedDeps(pOld)[i][2].s)) = version
      [] OTHER -> FALSE

\* C4: every emitted change has fromVersion # toVersion and names a
\* package the old snapshot declared with that fromVersion; a package that
\* only the new snapshot declares is never reported.
C4_ChangesComeFromOldSnapshot ==
    pPhase = "parsed" =>
        \A i \in DOMAIN pChanges :
            /\ pChanges[i].fromVersion # pChanges[i].toVersion
            /\ OldDeclares(pChanges[i].package, pChanges[i].fromVersion)

\* C8: for package.json and each package in both merged maps: no change
\* when the versions are equal after stripping one leading ^ or ~,
\* otherwise exactly one change, carrying the stripped versions.
C8_PackageJsonStrippedCompare ==
    pPhase = "parsed" /\ Dispatch(pFilename) = "package.json"
    /\ pOld.kind # "invalid" /\ pNew.kind # "invalid" =>
        \A i \in DOMAIN MergedDeps(pOld), j \in DOMAIN MergedDeps(pNew) :
            MergedDeps(pOld)[i][1] = MergedDeps(pNew)[j][1] =>
                LET package == MergedDeps(pNew)[j][1]
                    from    == StripRange(MergedDeps(pOld)[i][2].s)
                    to      == StripRange(MergedDeps(pNew)[j][2].s)
                    emitted == {k \in DOMAIN pChanges : pChanges[k].package = package}
                IN  IF from = to THEN emitted = {}
                    ELSE /\ Cardinality(emitted) = 1
                         /\ \A k \in emitted :
                               /\ pChanges[k].fromVersion = Str(from)
                               /\ pChanges[k].toVersion = Str(to)

(***************************************************************************)
(* Claims about the changed-file filter (SpecFilter).                      *)
(***************************************************************************)
ManifestNames == {"requirements.txt", "package.json", "pyproject.toml"}

\* The file was handed to a sub-parser of the differ.
Processed == fOut \in ManifestNames

\* C5: a changed file is processed by the differ if and only if its name
\* equals, or ends with, one of the three manifest file names, by the same
\* rule for all three; every other file is ignored.
C5_SameRuleForAllThree ==
    fPhase = "filtered" =>
        (Processed <=> \E m \in ManifestNames : fFilename = <<m>> \/ EndsWith(fFilename, <<m>>))

\* C5 as amended: processed if and only if the name is one of the three
\* manifest names or ends with "/requirements.txt" or "/package.json", and
\* then by the sub-parser of that manifest; a pyproject.toml in a
\* directory and a name that merely ends with a manifest name are ignored.
C5_FilterRule ==
    fPhase = "filtered" =>
        /\ Processed <=>
              \/ \E m \in ManifestNames : fFilename = <<m>>
              \/ \E m \in {"requirements.txt", "package.json"} : EndsWith(fFilename, <<"/", m>>)
        /\ Processed => fOut = fFilename[Len(fFilename)]
        /\ ~Processed => fOut = "ignored"

\* C5's case: a package.json in a directory went to its sub-parser.
C5_Witness ==
    fPhase = "filtered" /\ fFilename = <<"d", "/", "package.json">> /\ fOut = "package.json"

(***************************************************************************)
(* Claims about generateComment (SpecFormat).                              *)
(***************************************************************************)
NoBreakingAtAll == \A i \in DOMAIN gResults : gResults[i].breakingChanges = <<>>

\* C7: generateComment returns null if and only if every result has zero
\* breaking changes, and otherwise a text that holds the hidden marker
\* exactly once, whatever the names, descriptions and fixes are.
C7_MarkerExactlyOnce ==
    gPhase = "generated" =>
        /\ gComment.null <=> NoBreakingAtAll
        /\ ~gComment.null => Occurrences(gComment.text, MARKER) = 1

\* No text of a result with breaking changes holds the marker.
MarkerFreeInputs ==
    \A i \in DOMAIN gResults :
        gResults[i].breakingChanges # <<>> =>
            /\ gResults[i].package # MARKER
            /\ ~Includes(gResults[i].fromVersion, MARKER)
            /\ ~Includes(gResults[i].toVersion, MARKER)
            /\ ~Includes(gResults[i].migrationUrl, MARKER)
            /\ \A j \in DOMAIN gResults[i].breakingChanges :
                  /\ ~Includes(gResults[i].breakingChanges[j].change, MARKER)
                  /\ ~Includes(gResults[i].breakingChanges[j].fix.s, MARKER)

\* C7 as amended: null if and only if every result has zero breaking
\* changes; otherwise a text that starts with the hidden marker, and holds
\* it exactly once when no package name, version, description, fix or
\* migration URL of a result with breaking changes holds the marker.
C7_MarkerFirstAndOnceIfInputsClean ==
    gPhase = "generated" =>
        /\ gComment.null <=> NoBreakingAtAll
        /\ ~gComment.null =>
              /\ Head(gComment.text) = MARKER
              /\ MarkerFreeInputs => Occurrences(gComment.text, MARKER) = 1

\* C7's case: two results with breaking changes, rendered with one marker.
C7_Witness ==
    /\ gPhase = "generated" /\ ~gComment.null
    /\ Len(gResults) = 2
    /\ \A i \in DOMAIN gResults : gResults[i].breakingChanges # <<>>
    /\ MarkerFreeInputs
    /\ Occurrences(gComment.text, MARKER) = 1

(***************************************************************************)
(* Claims about the orchestrator (SpecSeq, SpecConc).                      *)
(***************************************************************************)
\* Run r wrote its comment in this step.
Posts(r) == run[r].pc = "upsert" /\ run'[r].pc = "done" /\ run'[r].posted # "none"

\* A run creates a comment only when no comment holds the marker, and
\* otherwise rewrites the body of the marked comment where it stands.
UpsertStep ==
    \A r \in Runs :
        Posts(r) =>
            IF MarkedComments = {}
            THEN /\ run'[r].posted = "created"
                 /\ comments' = Append(comments, comments'[Len(comments')])
                 /\ Includes(comments'[Len(comments')].body, MARKER)
            ELSE /\ run'[r].posted = "updated"
                 /\ Len(comments') = Len(comments)
                 /\ \A i \in DOMAIN comments :
                       /\ comments'[i].id = comments[i].id
                       /\ i \notin MarkedComments => comments'[i] = comments[i]
                       /\ i \in MarkedComments => comments'[i].body = run[r].comment.text

\* C6: with runs one after another at most one comment holds the hidden
\* marker: a run that posts creates a comment only when no comment holds
\* the marker, and otherwise updates the marked comment in place.
C6_AtMostOneMarkedComment ==
    /\ [](Cardinality(MarkedComments) <= 1)
    /\ [][UpsertStep]_vars

\* C6's case: one run created the comment and a later run updated it.
C6_Witness ==
    /\ \E r, q \in Runs :
          /\ run[r].pc = "done" /\ run[r].posted = "created"
          /\ run[q].pc = "done" /\ run[q].posted = "updated"
    /\ Cardinality(MarkedComments) = 1

\* C9: a finished run is marked failed with the breaking-changes message
\* if and only if the flag is set and a result has breaking changes, and
\* only after its comment was created or updated.
C9_FailedIffFlagAndBreaking ==
    \A r \in Runs :
        run[r].pc = "done" /\ run[r].results # <<>> =>
            /\ run[r].failed = BreakingMsg <=>
                  run[r].failOnBreaking /\ hasBreakingOf(run[r].results)
            /\ run[r].failed = BreakingMsg => run[r].posted # "none"

\* C9 as amended: ... if and only if the flag is set, a result has breaking
\* changes and the comment was created or updated (a rejected request of
\* the hosting API fails the run with that error's message instead).
C9_FailedIffFlagBreakingAndPosted ==
    \A r \in Runs :
        /\ run[r].failed = BreakingMsg => run[r].pc = "done"
        /\ run[r].pc = "done" =>
              /\ run[r].failed = BreakingMsg <=>
                    /\ run[r].failOnBreaking
                    /\ hasBreakingOf(run[r].results)
                    /\ run[r].posted # "none"
              /\ ~run[r].failOnBreaking => run[r].failed \in {"none", ApiErrorMsg}
              /\ run[r].posted # "none" /\ ~run[r].failOnBreaking => run[r].failed = "none"

\* C9's cases: a run that posted and failed, and a run with the flag unset
\* that posted breaking changes and did not fail.
C9_Witness ==
    \E r, q \in Runs :
        /\ run[r].pc = "done" /\ run[r].posted = "created" /\ run[r].failed = BreakingMsg
        /\ run[q].pc = "done" /\ run[q].posted = "updated" /\ ~run[q].failOnBreaking
        /\ hasBreakingOf(run[q].results) /\ run[q].failed = "none"

\* C10: also when two runs overlap, at most one comment holds the hidden
\* marker once both have finished.
C10_AtMostOneMarkedCommentWhenOverlapping ==
    (\A r \in Runs : run[r].pc \in {"idle", "done"}) => Cardinality(MarkedComments) <= 1

====
